---- MODULE Spec2Model ----
(***************************************************************************)
(* Model of the auth store backend of Xline                                *)
(* (xline/src/storage/auth_store/backend.rs): the execute / sync state     *)
(* machine over users, roles, the enabled flag, the revision counter, the  *)
(* permission cache and the speculative execution pool.                    *)
(*                                                                         *)
(* Byte strings (user names, role names, permission keys) are modelled as  *)
(* TLA+ strings; their byte order is given by Rank.                        *)
(***************************************************************************)
EXTENDS Integers, Sequences, FiniteSets, TLC

VARIABLES
    revision,       \* AuthStoreBackend.revision (RevisionNumber)
    users,          \* live records under USER_PREFIX: name -> User
    roles,          \* live records under ROLE_PREFIX: name -> Role
    auth_enable,    \* live record under AUTH_ENABLE_KEY: <<>> or <<byte>>
    enabled,        \* AuthStoreBackend.enabled (AtomicBool)
    cache,          \* AuthStoreBackend.permission_cache
    sp_exec_pool,   \* AuthStoreBackend.sp_exec_pool: ProposeId -> RequestCtx
    token_manager,  \* AuthStoreBackend.token_manager is Some
    next_id,        \* the next ProposeId the consensus layer mints
    last,           \* the last call that returned, and what it returned
    sync_thread,    \* where the thread inside sync_request stands, and its locals
    observed,       \* what the last execute or cache read ran against
    synced          \* the ProposeIds sync_request was called with

vars == <<revision, users, roles, auth_enable, enabled, cache, sp_exec_pool,
          token_manager, next_id, last, sync_thread, observed, synced>>

----------------------------------------------------------------------------
(* Bounds of the model *)

\* number of proposals the consensus layer mints in one behaviour
MaxProposals == 3
\* number of proposals executed and not yet synced at any moment
MaxInFlight == 2
\* number of proposals of a behaviour of SpecSeq (one proposal at a time)
SeqProposals == 6
\* number of proposals of a behaviour of SpecRace
RaceProposals == 4
\* number of proposals of a behaviour of SpecPerm
PermProposals == 5
\* number of proposals of a behaviour of SpecFine
FineProposals == 5
\* number of proposals of a behaviour of SpecRoles (one proposal at a time)
RolesProposals == 7
\* number of proposals of a behaviour of SpecLife
LifeProposals == 6
\* number of proposals of a behaviour of SpecUsers
UsersProposals == 6
\* number of proposals of a behaviour of SpecDeletes
DeletesProposals == 5

----------------------------------------------------------------------------
(* Names and byte order *)

ROOT_USER == "root"
ROOT_ROLE == "root"

UserNames == {"alice", ROOT_USER}
RoleNames == {"dev", ROOT_ROLE}

\* byte-wise lexicographic order of the byte strings of the model
Rank == [x \in {"", "a", "alice", "b", "dev", "p1", "p2", "root"} |->
            CASE x = "" -> 0
              [] x = "a" -> 1
              [] x = "alice" -> 2
              [] x = "b" -> 3
              [] x = "dev" -> 4
              [] x = "p1" -> 5
              [] x = "p2" -> 6
              [] x = "root" -> 7]

\* Ordering of str/Vec<u8>::cmp: -1 Less, 0 Equal, 1 Greater
Cmp(a, b) == IF Rank[a] < Rank[b] THEN -1 ELSE IF Rank[a] = Rank[b] THEN 0 ELSE 1

\* the comparator closure of the permission searches: p against (key, range_end)
PermCmp(p, key, range_end) ==
    IF Cmp(p.key, key) = 0 THEN Cmp(p.range_end, range_end) ELSE Cmp(p.key, key)

PermTypes == {"Read", "Write", "Readwrite"}
KeyRanges == {<<"a", "">>, <<"a", "b">>, <<"b", "">>}
Permissions == {[perm_type |-> t, key |-> kr[1], range_end |-> kr[2]] :
                    t \in PermTypes, kr \in KeyRanges}

\* KeyRange::new
KeyRange(key, range_end) == [start |-> key, end |-> range_end]

----------------------------------------------------------------------------
(* Sequence helpers: Vec::insert, Vec::remove, Vec::swap_remove (0-based idx) *)

VecInsert(v, idx, x) ==
    [i \in 1..(Len(v) + 1) |->
        IF i <= idx THEN v[i] ELSE IF i = idx + 1 THEN x ELSE v[i - 1]]

VecRemove(v, idx) ==
    [i \in 1..(Len(v) - 1) |-> IF i <= idx THEN v[i] ELSE v[i + 1]]

VecSwapRemove(v, idx) ==
    [i \in 1..(Len(v) - 1) |-> IF i = idx + 1 THEN v[Len(v)] ELSE v[i]]

\* Iterator::find_position: the 0-based index of the first x in v, or -1
FindPosition(v, x) ==
    IF \E i \in 1..Len(v) : v[i] = x
    THEN (CHOOSE i \in 1..Len(v) : v[i] = x /\ \A j \in 1..(i - 1) : v[j] # x) - 1
    ELSE -1

\* slice::binary_search over role names: [ok, idx] for Ok(idx) / Err(idx)
RECURSIVE BinarySearchFrom(_, _, _, _)
BinarySearchFrom(v, x, lo, hi) ==
    IF lo >= hi THEN [ok |-> FALSE, idx |-> lo]
    ELSE LET mid == lo + ((hi - lo) \div 2)
             c == Cmp(v[mid + 1], x)
         IN  IF c = 0 THEN [ok |-> TRUE, idx |-> mid]
             ELSE IF c < 0 THEN BinarySearchFrom(v, x, mid + 1, hi)
             ELSE BinarySearchFrom(v, x, lo, mid)

binary_search(v, x) == BinarySearchFrom(v, x, 0, Len(v))

\* binary_search_by with a comparator that looks at the key alone
binary_search_by_key_only(v, key, range_end) ==
    IF \E i \in 1..Len(v) : v[i].key = key
    THEN [ok |-> TRUE, idx |-> (CHOOSE i \in 1..Len(v) : v[i].key = key) - 1]
    ELSE [ok |-> FALSE, idx |-> Cardinality({i \in 1..Len(v) : Cmp(v[i].key, key) < 0})]

\* slice::binary_search_by with the (key, range_end) comparator
RECURSIVE BinarySearchByFrom(_, _, _, _, _)
BinarySearchByFrom(v, key, range_end, lo, hi) ==
    IF lo >= hi THEN [ok |-> FALSE, idx |-> lo]
    ELSE LET mid == lo + ((hi - lo) \div 2)
             c == PermCmp(v[mid + 1], key, range_end)
         IN  IF c = 0 THEN [ok |-> TRUE, idx |-> mid]
             ELSE IF c < 0 THEN BinarySearchByFrom(v, key, range_end, mid + 1, hi)
             ELSE BinarySearchByFrom(v, key, range_end, lo, mid)

binary_search_by(v, key, range_end) ==
    BinarySearchByFrom(v, key, range_end, 0, Len(v))

----------------------------------------------------------------------------
(* HashMap helpers *)

EmptyMap == <<>>

MapInsert(m, k, v) == [x \in (DOMAIN m) \cup {k} |-> IF x = k THEN v ELSE m[x]]

MapRemove(m, k) == [x \in (DOMAIN m) \ {k} |-> m[x]]

\* the names of a set in ascending byte order (the order of an index range scan)
RECURSIVE SortedNames(_)
SortedNames(S) ==
    IF S = {} THEN <<>>
    ELSE LET m == CHOOSE x \in S : \A y \in S : Rank[x] <= Rank[y]
         IN  <<m>> \o SortedNames(S \ {m})

----------------------------------------------------------------------------
(* The store as one value: the fields of AuthStoreBackend that execute and  *)
(* sync read and write.  users / roles / auth_enable are what get() returns *)
(* for the keys under "user/", "role/" and "auth_enable": the latest live   *)
(* value of each key.                                                       *)

\* RevisionNumber::new
RevisionNew == 0

\* PermissionCache::new
PermissionCacheNew == [user_permissions |-> EmptyMap, role_to_users_map |-> EmptyMap]

\* UserPermissions::new
UserPermissionsNew == [read |-> <<>>, write |-> <<>>]

\* AuthStoreBackend::new; key_pair is Some or None
BackendNew(key_pair) ==
    [revision |-> RevisionNew, users |-> EmptyMap, roles |-> EmptyMap,
     auth_enable |-> <<>>, enabled |-> FALSE, cache |-> PermissionCacheNew,
     sp_exec_pool |-> EmptyMap, token_manager |-> key_pair, writes |-> <<>>]

\* the push of one key range into read / write according to perm_type
PushPermission(up, perm) ==
    LET key_range == KeyRange(perm.key, perm.range_end)
    IN  CASE perm.perm_type = "Readwrite" ->
                [read |-> Append(up.read, key_range), write |-> Append(up.write, key_range)]
          [] perm.perm_type = "Write" ->
                [read |-> up.read, write |-> Append(up.write, key_range)]
          [] perm.perm_type = "Read" ->
                [read |-> Append(up.read, key_range), write |-> up.write]

RECURSIVE PushPermissions(_, _, _)
PushPermissions(up, perms, i) ==
    IF i > Len(perms) THEN up
    ELSE PushPermissions(PushPermission(up, perms[i]), perms, i + 1)

RECURSIVE UserPermissionsFrom(_, _, _, _)
UserPermissionsFrom(s, user_roles, i, up) ==
    IF i > Len(user_roles) THEN up
    ELSE IF user_roles[i] \in DOMAIN s.roles
         THEN UserPermissionsFrom(s, user_roles, i + 1,
                  PushPermissions(up, s.roles[user_roles[i]].key_permission, 1))
         ELSE UserPermissionsFrom(s, user_roles, i + 1, up)

\* get_user_permissions: roles that are not persisted are skipped
get_user_permissions(s, user) ==
    UserPermissionsFrom(s, user.roles, 1, UserPermissionsNew)

\* create_permission_cache: a new cache holding one entry per persisted user
create_permission_cache(s) ==
    [s EXCEPT !.cache =
        [user_permissions |-> [u \in DOMAIN s.users |-> get_user_permissions(s, s.users[u])],
         role_to_users_map |-> PermissionCacheNew.role_to_users_map]]

\* RevisionNumber::next replaced by a read of the counter (get)
RevisionNextReadsOnly(s) == s

\* RevisionNumber::next
RevisionNext(s) == [s EXCEPT !.revision = s.revision + 1]

\* the stamp of one write: the key and the (main, sub) revision it is indexed under
Stamp(kind, name, main, sub, tombstone) ==
    [key |-> <<kind, name>>, revision |-> main, sub_revision |-> sub, tombstone |-> tombstone]

\* put_user / put_role / put(AUTH_ENABLE_KEY): the key's live value is replaced
put_user(s, user, main, sub) ==
    [s EXCEPT !.users = MapInsert(s.users, user.name, user),
              !.writes = Append(s.writes, Stamp("user/", user.name, main, sub, FALSE))]

put_role(s, role, main, sub) ==
    [s EXCEPT !.roles = MapInsert(s.roles, role.name, role),
              !.writes = Append(s.writes, Stamp("role/", role.name, main, sub, FALSE))]

put_auth_enable(s, byte, main, sub) ==
    [s EXCEPT !.auth_enable = <<byte>>,
              !.writes = Append(s.writes, Stamp("auth_enable", "", main, sub, FALSE))]

\* delete_user / delete_role: index.delete returns no revision for a key that is
\* not live, and then nothing is marked
delete_user(s, username, main, sub) ==
    IF username \notin DOMAIN s.users THEN s
    ELSE [s EXCEPT !.users = MapRemove(s.users, username),
                   !.writes = Append(s.writes, Stamp("user/", username, main, sub, TRUE))]

delete_role(s, rolename, main, sub) ==
    IF rolename \notin DOMAIN s.roles THEN s
    ELSE [s EXCEPT !.roles = MapRemove(s.roles, rolename),
                   !.writes = Append(s.writes, Stamp("role/", rolename, main, sub, TRUE))]

----------------------------------------------------------------------------
(* RequestWrapper: the auth requests, as records over one set of fields    *)
(* (a field a request type does not have is "" or <<>>)                    *)

Request(type) ==
    [type |-> type, name |-> "", user |-> "", role |-> "", hashed_password |-> "",
     options |-> <<>>, perm |-> <<>>, key |-> "", range_end |-> ""]

RequestTypes ==
    {"AuthEnable", "AuthDisable", "AuthStatus", "Authenticate", "AuthUserAdd", "AuthUserGet",
     "AuthUserList", "AuthUserDelete", "AuthUserChangePassword", "AuthUserGrantRole",
     "AuthUserRevokeRole", "AuthRoleAdd", "AuthRoleGet", "AuthRoleList", "AuthRoleDelete",
     "AuthRoleGrantPermission", "AuthRoleRevokePermission"}

UserAddPasswords == {"p1"}
ChangePasswords == {"", "p2"}
UserAddOptions == {<<>>, <<[no_password |-> TRUE]>>}

\* every request over the users U, the roles R and the key ranges K
RequestsOver(U, R, K) ==
    {Request(t) : t \in {"AuthEnable", "AuthDisable", "AuthStatus", "AuthUserList",
                         "AuthRoleList"}}
    \cup {[Request(t) EXCEPT !.name = u] :
            t \in {"Authenticate", "AuthUserGet", "AuthUserDelete"}, u \in U}
    \cup {[Request("AuthUserAdd") EXCEPT !.name = u, !.hashed_password = pw, !.options = o] :
            u \in U, pw \in UserAddPasswords, o \in UserAddOptions}
    \cup {[Request("AuthUserChangePassword") EXCEPT !.name = u, !.hashed_password = pw] :
            u \in U, pw \in ChangePasswords}
    \cup {[Request("AuthUserGrantRole") EXCEPT !.user = u, !.role = r] : u \in U, r \in R}
    \cup {[Request("AuthUserRevokeRole") EXCEPT !.name = u, !.role = r] : u \in U, r \in R}
    \cup {[Request("AuthRoleAdd") EXCEPT !.name = r] : r \in R}
    \cup {[Request(t) EXCEPT !.role = r] : t \in {"AuthRoleGet", "AuthRoleDelete"}, r \in R}
    \cup {[Request("AuthRoleGrantPermission") EXCEPT !.name = r, !.perm = pm] :
            r \in R,
            pm \in {<<>>} \cup {<<p>> : p \in {q \in Permissions :
                                                <<q.key, q.range_end>> \in K}}}
    \cup {[Request("AuthRoleRevokePermission") EXCEPT
                !.role = r, !.key = kr[1], !.range_end = kr[2]] : r \in R, kr \in K}

Requests == RequestsOver(UserNames, RoleNames, KeyRanges)

----------------------------------------------------------------------------
(* execute: the handle_* functions.  Each returns [ok, resp]: ok is FALSE   *)
(* for Err(ExecuteError::InvalidCommand), resp is what the response carries *)
(* besides the header.  None of them takes &mut self or writes a field.     *)

Ok(resp) == [ok |-> TRUE, resp |-> resp]
Err(msg) == [ok |-> FALSE, resp |-> msg]
NoBody == <<>>

\* Option<UserAddOptions>::map_or(true, |o| !o.no_password)
need_password(user) ==
    IF user.options = <<>> THEN TRUE ELSE ~user.options[1].no_password

handle_auth_enable_request(s, req) ==
    IF s.enabled THEN Ok(NoBody)
    ELSE IF ROOT_USER \notin DOMAIN s.users THEN Err("user not found")
    ELSE IF ~binary_search(s.users[ROOT_USER].roles, ROOT_ROLE).ok
         THEN Err("root user does not have root role")
    ELSE Ok(NoBody)

handle_auth_disable_request(s, req) == Ok(NoBody)

handle_auth_status_request(s, req) ==
    Ok([auth_revision |-> s.revision, enabled |-> s.enabled])

\* assign: the token binds the user name and the current auth revision
assign(s, username) ==
    IF s.token_manager THEN Ok([name |-> username, revision |-> s.revision])
    ELSE Err("token_manager is not initialized")

\* the passwords clients present, and the PHC hash string of each
PlainPasswords == {"pw1", "pw2"}
Pbkdf2Hash(password) == IF password = "pw1" THEN "p1" ELSE "p2"

\* Pbkdf2.verify_password(password, hash)
verify_password(password, hash) == Pbkdf2Hash(password) = hash

\* check_password: the auth revision when the password matches the stored hash
check_password(s, username, password) ==
    IF ~s.enabled THEN Err("auth is not enabled")
    ELSE IF username \notin DOMAIN s.users THEN Err("user not found")
    ELSE IF ~need_password(s.users[username])
         THEN Err("password was given for no password user")
    ELSE IF s.users[username].password = "" THEN Err("panic: Failed to parse password hash")
    ELSE IF ~verify_password(password, s.users[username].password)
         THEN Err("verify password error")
    ELSE Ok(s.revision)

\* the handler without the is_enabled check
handle_authenticate_request_unchecked(s, req) == assign(s, req.name)

handle_authenticate_request(s, req) ==
    IF ~s.enabled THEN Err("auth is not enabled")
    ELSE assign(s, req.name)

handle_user_add_request(s, req) ==
    IF req.name \in DOMAIN s.users THEN Err("user already exists") ELSE Ok(NoBody)

handle_user_get_request(s, req) ==
    IF req.name \notin DOMAIN s.users THEN Err("user not found")
    ELSE Ok(s.users[req.name].roles)

handle_user_list_request(s, req) == Ok(SortedNames(DOMAIN s.users))

\* the handler without the check that protects root while auth is enabled
handle_user_delete_request_unguarded(s, req) ==
    IF req.name \notin DOMAIN s.users THEN Err("user not found")
    ELSE Ok(NoBody)

handle_user_delete_request(s, req) ==
    IF s.enabled /\ req.name = ROOT_USER THEN Err("root user cannot be deleted")
    ELSE IF req.name \notin DOMAIN s.users THEN Err("user not found")
    ELSE Ok(NoBody)

handle_user_change_password_request(s, req) ==
    IF req.name \notin DOMAIN s.users THEN Err("user not found")
    ELSE IF need_password(s.users[req.name]) /\ req.hashed_password = ""
         THEN Err("password is required but not provided")
    ELSE Ok(NoBody)

\* a handler that also rejects a role the user already holds
handle_user_grant_role_request_checking_held(s, req) ==
    IF req.user \notin DOMAIN s.users THEN Err("user not found")
    ELSE IF req.role # ROOT_ROLE /\ req.role \notin DOMAIN s.roles THEN Err("role not found")
    ELSE IF binary_search(s.users[req.user].roles, req.role).ok THEN Err("already has role")
    ELSE Ok(NoBody)

handle_user_grant_role_request(s, req) ==
    IF req.user \notin DOMAIN s.users THEN Err("user not found")
    ELSE IF req.role # ROOT_ROLE /\ req.role \notin DOMAIN s.roles THEN Err("role not found")
    ELSE Ok(NoBody)

\* the handler without the check that protects root while auth is enabled
handle_user_revoke_role_request_unguarded(s, req) ==
    IF req.name \notin DOMAIN s.users THEN Err("user not found")
    ELSE IF ~binary_search(s.users[req.name].roles, req.role).ok
         THEN Err("role is not granted to the user")
    ELSE Ok(NoBody)

handle_user_revoke_role_request(s, req) ==
    IF s.enabled /\ req.name = ROOT_USER /\ req.role = ROOT_ROLE
    THEN Err("root user cannot revoke root role")
    ELSE IF req.name \notin DOMAIN s.users THEN Err("user not found")
    ELSE IF ~binary_search(s.users[req.name].roles, req.role).ok
         THEN Err("role is not granted to the user")
    ELSE Ok(NoBody)

handle_role_add_request(s, req) ==
    IF req.name \in DOMAIN s.roles THEN Err("role already exists") ELSE Ok(NoBody)

\* the root role answers with a synthesized Readwrite over all keys
AllKeysPermission == [perm_type |-> "Readwrite", key |-> "", range_end |-> "\\0"]

handle_role_get_request(s, req) ==
    IF req.role \notin DOMAIN s.roles THEN Err("role not found")
    ELSE IF s.roles[req.role].name = ROOT_ROLE THEN Ok(<<AllKeysPermission>>)
    ELSE Ok(s.roles[req.role].key_permission)

handle_role_list_request(s, req) == Ok(SortedNames(DOMAIN s.roles))

handle_role_delete_request(s, req) ==
    IF s.enabled /\ req.role = ROOT_ROLE THEN Err("root role cannot be deleted")
    ELSE IF req.role \notin DOMAIN s.roles THEN Err("role not found")
    ELSE Ok(NoBody)

handle_role_grant_permission_request(s, req) ==
    IF req.name \notin DOMAIN s.roles THEN Err("role not found") ELSE Ok(NoBody)

handle_role_revoke_permission_request(s, req) ==
    IF req.role \notin DOMAIN s.roles THEN Err("role not found")
    ELSE IF ~binary_search_by(s.roles[req.role].key_permission, req.key, req.range_end).ok
         THEN Err("permission not granted to the role")
    ELSE Ok(NoBody)

\* the match of handle_auth_req
handle_wrapper(s, req) ==
    CASE req.type = "AuthEnable" -> handle_auth_enable_request(s, req)
      [] req.type = "AuthDisable" -> handle_auth_disable_request(s, req)
      [] req.type = "AuthStatus" -> handle_auth_status_request(s, req)
      [] req.type = "AuthUserAdd" -> handle_user_add_request(s, req)
      [] req.type = "AuthUserGet" -> handle_user_get_request(s, req)
      [] req.type = "AuthUserList" -> handle_user_list_request(s, req)
      [] req.type = "AuthUserGrantRole" -> handle_user_grant_role_request(s, req)
      [] req.type = "AuthUserRevokeRole" -> handle_user_revoke_role_request(s, req)
      [] req.type = "AuthUserChangePassword" -> handle_user_change_password_request(s, req)
      [] req.type = "AuthUserDelete" -> handle_user_delete_request(s, req)
      [] req.type = "AuthRoleAdd" -> handle_role_add_request(s, req)
      [] req.type = "AuthRoleGet" -> handle_role_get_request(s, req)
      [] req.type = "AuthRoleGrantPermission" -> handle_role_grant_permission_request(s, req)
      [] req.type = "AuthRoleRevokePermission" -> handle_role_revoke_permission_request(s, req)
      [] req.type = "AuthRoleDelete" -> handle_role_delete_request(s, req)
      [] req.type = "AuthRoleList" -> handle_role_list_request(s, req)
      [] req.type = "Authenticate" -> handle_authenticate_request(s, req)

\* handle_auth_req allocating a revision for the response header of a valid request
handle_auth_req_allocating(s, id, wrapper) ==
    LET res == handle_wrapper(s, wrapper)
        ctx == [req |-> wrapper, met_err |-> ~res.ok]
        s1 == IF res.ok THEN RevisionNext(s) ELSE s
    IN  [res |-> res,
         s |-> [s1 EXCEPT !.sp_exec_pool = MapInsert(s.sp_exec_pool, id, ctx)]]

\* handle_auth_req: the response, and the store with the context recorded in the pool
handle_auth_req(s, id, wrapper) ==
    LET res == handle_wrapper(s, wrapper)
        ctx == [req |-> wrapper, met_err |-> ~res.ok]
    IN  [res |-> res,
         s |-> [s EXCEPT !.sp_exec_pool = MapInsert(s.sp_exec_pool, id, ctx)]]

----------------------------------------------------------------------------
(* sync: the sync_* functions.  Each returns [ok, s]: ok is FALSE for an    *)
(* Err return (the `?` and the explicit return Err), s is the store after.  *)

SyncOk(s) == [ok |-> TRUE, s |-> s]
SyncErr(s) == [ok |-> FALSE, s |-> s]

\* sync_auth_enable_request without the is_enabled early return
sync_auth_enable_request_unguarded(s, req) ==
    LET s1 == RevisionNext(s)
        s2 == put_auth_enable(s1, 1, s1.revision, 0)
        s3 == [s2 EXCEPT !.enabled = TRUE]
    IN  SyncOk(create_permission_cache(s3))

\* sync_auth_enable_request writing under the current revision, without next()
sync_auth_enable_request_unstamped(s, req) ==
    IF s.enabled THEN SyncOk(s)
    ELSE LET s2 == put_auth_enable(s, 1, s.revision, 0)
             s3 == [s2 EXCEPT !.enabled = TRUE]
         IN  SyncOk(create_permission_cache(s3))

sync_auth_enable_request(s, req) ==
    IF s.enabled THEN SyncOk(s)
    ELSE LET s1 == RevisionNext(s)
             s2 == put_auth_enable(s1, 1, s1.revision, 0)
             s3 == [s2 EXCEPT !.enabled = TRUE]
         IN  SyncOk(create_permission_cache(s3))

\* sync_auth_disable_request storing the flag without the put of AUTH_ENABLE_KEY
sync_auth_disable_request_keeping_record(s, req) ==
    IF ~s.enabled THEN SyncOk(s)
    ELSE LET s1 == RevisionNext(s)
         IN  SyncOk([s1 EXCEPT !.enabled = FALSE])

sync_auth_disable_request(s, req) ==
    IF ~s.enabled THEN SyncOk(s)
    ELSE LET s1 == RevisionNext(s)
             s2 == put_auth_enable(s1, 0, s1.revision, 0)
         IN  SyncOk([s2 EXCEPT !.enabled = FALSE])

sync_user_add_request(s, req) ==
    LET user == [name |-> req.name, password |-> req.hashed_password,
                 options |-> req.options, roles |-> <<>>]
        s1 == RevisionNext(s)
    IN  SyncOk(put_user(s1, user, s1.revision, 0))

\* the closure of sync_user_delete_request over role_to_users_map
RemoveUserFromLists(role_to_users_map, name) ==
    [r \in DOMAIN role_to_users_map |->
        LET idx == FindPosition(role_to_users_map[r], name)
        IN  IF idx >= 0 THEN VecSwapRemove(role_to_users_map[r], idx)
            ELSE role_to_users_map[r]]

sync_user_delete_request(s, req) ==
    LET s1 == RevisionNext(s)
        s2 == delete_user(s1, req.name, s1.revision, 0)
    IN  SyncOk([s2 EXCEPT
            !.cache.user_permissions = MapRemove(s2.cache.user_permissions, req.name),
            !.cache.role_to_users_map =
                RemoveUserFromLists(s2.cache.role_to_users_map, req.name)])

\* sync_user_change_password_request writing a new User in place of the one read
sync_user_change_password_request_rebuilding_user(s, req) ==
    IF req.name \notin DOMAIN s.users THEN SyncErr(s)
    ELSE LET user == [s.users[req.name] EXCEPT !.password = req.hashed_password,
                                                !.roles = <<>>]
             s1 == RevisionNext(s)
         IN  SyncOk(put_user(s1, user, s1.revision, 0))

\* sync_user_change_password_request allocating the revision before get_user
sync_user_change_password_request_allocating_first(s, req) ==
    LET s1 == RevisionNext(s)
    IN  IF req.name \notin DOMAIN s.users THEN SyncErr(s1)
        ELSE LET user == [s.users[req.name] EXCEPT !.password = req.hashed_password]
             IN  SyncOk(put_user(s1, user, s1.revision, 0))

sync_user_change_password_request(s, req) ==
    IF req.name \notin DOMAIN s.users THEN SyncErr(s)
    ELSE LET user == [s.users[req.name] EXCEPT !.password = req.hashed_password]
             s1 == RevisionNext(s)
         IN  SyncOk(put_user(s1, user, s1.revision, 0))

\* the cache update of sync_user_grant_role_request, once the user is written
GrantRoleCacheUpdate(s, s2, req) ==
    IF req.role \notin DOMAIN s.roles THEN SyncOk(s2)
    ELSE LET perms == s.roles[req.role].key_permission
             up == s2.cache.user_permissions
             entry == IF req.user \in DOMAIN up THEN up[req.user] ELSE UserPermissionsNew
             rtu == s2.cache.role_to_users_map
             list == IF req.role \in DOMAIN rtu THEN rtu[req.role] ELSE <<>>
         IN  SyncOk([s2 EXCEPT
                 !.cache.user_permissions =
                     MapInsert(up, req.user, PushPermissions(entry, perms, 1)),
                 !.cache.role_to_users_map =
                     MapInsert(rtu, req.role, Append(list, req.user))])

\* sync_user_grant_role_request pushing the role at the end of user.roles
sync_user_grant_role_request_pushing(s, req) ==
    IF req.user \notin DOMAIN s.users THEN SyncErr(s)
    ELSE IF req.role # ROOT_ROLE /\ req.role \notin DOMAIN s.roles THEN SyncErr(s)
    ELSE LET user == s.users[req.user]
             found == binary_search(user.roles, req.role)
         IN  IF found.ok THEN SyncErr(s)
             ELSE LET new_user == [user EXCEPT !.roles = Append(user.roles, req.role)]
                      s1 == RevisionNext(s)
                      s2 == put_user(s1, new_user, s1.revision, 0)
                  IN  GrantRoleCacheUpdate(s, s2, req)

\* sync_user_grant_role_request without the get_role of a role other than root
sync_user_grant_role_request_trusting_execute(s, req) ==
    IF req.user \notin DOMAIN s.users THEN SyncErr(s)
    ELSE LET user == s.users[req.user]
             found == binary_search(user.roles, req.role)
         IN  IF found.ok THEN SyncErr(s)
             ELSE LET new_user == [user EXCEPT !.roles = VecInsert(user.roles, found.idx, req.role)]
                      s1 == RevisionNext(s)
                      s2 == put_user(s1, new_user, s1.revision, 0)
                  IN  GrantRoleCacheUpdate(s, s2, req)

sync_user_grant_role_request(s, req) ==
    IF req.user \notin DOMAIN s.users THEN SyncErr(s)
    ELSE IF req.role # ROOT_ROLE /\ req.role \notin DOMAIN s.roles THEN SyncErr(s)
    ELSE LET user == s.users[req.user]
             found == binary_search(user.roles, req.role)
         IN  IF found.ok THEN SyncErr(s)
             ELSE LET new_user == [user EXCEPT !.roles = VecInsert(user.roles, found.idx, req.role)]
                      s1 == RevisionNext(s)
                      s2 == put_user(s1, new_user, s1.revision, 0)
                  IN  GrantRoleCacheUpdate(s, s2, req)

\* sync_user_revoke_role_request up to revision.next(): the user with the role
\* removed and the revision allocated, or the error
RevokeRoleAllocate(s, req) ==
    IF req.name \notin DOMAIN s.users THEN [ok |-> FALSE, s |-> s]
    ELSE LET user == s.users[req.name]
             found == binary_search(user.roles, req.role)
         IN  IF ~found.ok THEN [ok |-> FALSE, s |-> s]
             ELSE [ok |-> TRUE, s |-> RevisionNext(s),
                   user |-> [user EXCEPT !.roles = VecRemove(user.roles, found.idx)]]

\* the closure without the swap_remove on role_to_users_map
RevokeRoleCacheUpdate_keeping_listed(s, req, user) ==
    [s EXCEPT !.cache.user_permissions =
                  MapInsert(s.cache.user_permissions, req.name, get_user_permissions(s, user))]

\* the map_write closure of sync_user_revoke_role_request
RevokeRoleCacheUpdate(s, req, user) ==
    LET user_permissions == get_user_permissions(s, user)
        rtu == s.cache.role_to_users_map
        idx == IF req.role \in DOMAIN rtu THEN FindPosition(rtu[req.role], req.name) ELSE -1
    IN  [s EXCEPT
            !.cache.role_to_users_map =
                IF idx >= 0 THEN MapInsert(rtu, req.role, VecSwapRemove(rtu[req.role], idx))
                ELSE rtu,
            !.cache.user_permissions =
                MapInsert(s.cache.user_permissions, req.name, user_permissions)]

sync_user_revoke_role_request(s, req) ==
    LET alloc == RevokeRoleAllocate(s, req)
    IN  IF ~alloc.ok THEN SyncErr(s)
        ELSE LET s2 == put_user(alloc.s, alloc.user, alloc.s.revision, 0)
             IN  SyncOk(RevokeRoleCacheUpdate(s2, req, alloc.user))

sync_role_add_request(s, req) ==
    LET role == [name |-> req.name, key_permission |-> <<>>]
        s1 == RevisionNext(s)
    IN  SyncOk(put_role(s1, role, s1.revision, 0))

\* the iteration without sub_revision.wrapping_add(1)
RoleDeleteUser_reusing_sub_revision(acc, name, role, main) ==
    LET user == acc.s.users[name]
        found == binary_search(user.roles, role)
    IN  IF ~found.ok THEN acc
        ELSE LET new_user == [user EXCEPT !.roles = VecRemove(user.roles, found.idx)]
                 s1 == put_user(acc.s, new_user, main, acc.sub_revision)
             IN  [s |-> s1, sub_revision |-> acc.sub_revision,
                  new_perms |-> MapInsert(acc.new_perms, new_user.name,
                                          get_user_permissions(s1, new_user))]

\* one iteration of the loop of sync_role_delete_request, for the user `name` of
\* the get_all_users() snapshot: acc is [s, sub_revision, new_perms]
RoleDeleteUser(acc, name, role, main) ==
    LET user == acc.s.users[name]
        found == binary_search(user.roles, role)
    IN  IF ~found.ok THEN acc
        ELSE LET new_user == [user EXCEPT !.roles = VecRemove(user.roles, found.idx)]
                 s1 == put_user(acc.s, new_user, main, acc.sub_revision)
             IN  [s |-> s1, sub_revision |-> acc.sub_revision + 1,
                  new_perms |-> MapInsert(acc.new_perms, new_user.name,
                                          get_user_permissions(s1, new_user))]

\* the loop, over the names of the snapshot in key order
RECURSIVE RoleDeleteCascade(_, _, _, _, _)
RoleDeleteCascade(acc, names, i, role, main) ==
    IF i > Len(names) THEN acc
    ELSE RoleDeleteCascade(RoleDeleteUser(acc, names[i], role, main), names, i + 1, role, main)

\* the closure without cache.user_permissions.extend(new_perms)
RoleDeleteCacheUpdate_not_extending(s, req, new_perms) ==
    [s EXCEPT !.cache.role_to_users_map = MapRemove(s.cache.role_to_users_map, req.role)]

\* the map_write closure of sync_role_delete_request
RoleDeleteCacheUpdate(s, req, new_perms) ==
    LET up == s.cache.user_permissions
    IN  [s EXCEPT
            !.cache.user_permissions =
                [u \in (DOMAIN up) \cup (DOMAIN new_perms) |->
                    IF u \in DOMAIN new_perms THEN new_perms[u] ELSE up[u]],
            !.cache.role_to_users_map = MapRemove(s.cache.role_to_users_map, req.role)]

sync_role_delete_request(s, req) ==
    LET s1 == RevisionNext(s)
        s2 == delete_role(s1, req.role, s1.revision, 0)
        done == RoleDeleteCascade([s |-> s2, sub_revision |-> 1, new_perms |-> EmptyMap],
                                  SortedNames(DOMAIN s2.users), 1, req.role, s1.revision)
    IN  SyncOk(RoleDeleteCacheUpdate(done.s, req, done.new_perms))

\* the fan-out loop of sync_role_grant_permission_request over the cloned user list
RECURSIVE GrantFanOut(_, _, _, _)
GrantFanOut(up, list, i, permission) ==
    IF i > Len(list) THEN up
    ELSE LET entry == IF list[i] \in DOMAIN up THEN up[list[i]] ELSE UserPermissionsNew
         IN  GrantFanOut(MapInsert(up, list[i], PushPermission(entry, permission)),
                         list, i + 1, permission)

sync_role_grant_permission_request(s, req) ==
    IF req.name \notin DOMAIN s.roles THEN SyncErr(s)
    ELSE IF req.perm = <<>> THEN SyncErr(s)
    ELSE LET role == s.roles[req.name]
             permission == req.perm[1]
             found == binary_search_by(role.key_permission, permission.key,
                                       permission.range_end)
             new_role ==
                 IF found.ok
                 THEN [role EXCEPT !.key_permission[found.idx + 1].perm_type =
                                        permission.perm_type]
                 ELSE [role EXCEPT !.key_permission =
                                        VecInsert(role.key_permission, found.idx, permission)]
             s1 == RevisionNext(s)
             s2 == put_role(s1, new_role, s1.revision, 0)
             rtu == s2.cache.role_to_users_map
             list == IF req.name \in DOMAIN rtu THEN rtu[req.name] ELSE <<>>
         IN  SyncOk([s2 EXCEPT !.cache.user_permissions =
                        GrantFanOut(s2.cache.user_permissions, list, 1, permission)])

\* the recompute loop of sync_role_revoke_permission_request
RECURSIVE RevokeRecompute(_, _, _, _)
RevokeRecompute(up, list, i, s) ==
    IF i > Len(list) THEN up
    ELSE IF list[i] \notin DOMAIN s.users THEN RevokeRecompute(up, list, i + 1, s)
    ELSE RevokeRecompute(
             MapInsert(up, s.users[list[i]].name, get_user_permissions(s, s.users[list[i]])),
             list, i + 1, s)

sync_role_revoke_permission_request(s, req) ==
    IF req.role \notin DOMAIN s.roles THEN SyncErr(s)
    ELSE LET role == s.roles[req.role]
             found == binary_search_by(role.key_permission, req.key, req.range_end)
         IN  IF ~found.ok THEN SyncErr(s)
             ELSE LET new_role == [role EXCEPT !.key_permission =
                                       VecRemove(role.key_permission, found.idx)]
                      s1 == RevisionNext(s)
                      s2 == put_role(s1, new_role, s1.revision, 0)
                      rtu == s2.cache.role_to_users_map
                      list == IF req.role \in DOMAIN rtu THEN rtu[req.role] ELSE <<>>
                  IN  SyncOk([s2 EXCEPT !.cache.user_permissions =
                                 RevokeRecompute(s2.cache.user_permissions, list, 1, s2)])

\* the match of sync_request, for a context whose execute did not err
sync_wrapper(s, req) ==
    CASE req.type = "AuthEnable" -> sync_auth_enable_request(s, req)
      [] req.type = "AuthDisable" -> sync_auth_disable_request(s, req)
      [] req.type = "AuthUserAdd" -> sync_user_add_request(s, req)
      [] req.type = "AuthUserGrantRole" -> sync_user_grant_role_request(s, req)
      [] req.type = "AuthUserRevokeRole" -> sync_user_revoke_role_request(s, req)
      [] req.type = "AuthUserChangePassword" -> sync_user_change_password_request(s, req)
      [] req.type = "AuthUserDelete" -> sync_user_delete_request(s, req)
      [] req.type = "AuthRoleAdd" -> sync_role_add_request(s, req)
      [] req.type = "AuthRoleGrantPermission" -> sync_role_grant_permission_request(s, req)
      [] req.type = "AuthRoleRevokePermission" -> sync_role_revoke_permission_request(s, req)
      [] req.type = "AuthRoleDelete" -> sync_role_delete_request(s, req)
      [] OTHER -> SyncOk(s)

\* sync_request reading the context of a failed execute without removing it
sync_request_peeking_failed(s, id) ==
    LET ctx == s.sp_exec_pool[id]
        s1 == [s EXCEPT !.sp_exec_pool = MapRemove(s.sp_exec_pool, id)]
    IN  IF ctx.met_err THEN SyncOk(s) ELSE sync_wrapper(s1, ctx.req)

\* sync_request without the met_err early return
sync_request_ignoring_met_err(s, id) ==
    LET ctx == s.sp_exec_pool[id]
        s1 == [s EXCEPT !.sp_exec_pool = MapRemove(s.sp_exec_pool, id)]
    IN  sync_wrapper(s1, ctx.req)

\* sync_request: the context is removed from the pool first
sync_request(s, id) ==
    LET ctx == s.sp_exec_pool[id]
        s1 == [s EXCEPT !.sp_exec_pool = MapRemove(s.sp_exec_pool, id)]
    IN  IF ctx.met_err THEN SyncOk(s1) ELSE sync_wrapper(s1, ctx.req)

----------------------------------------------------------------------------
(* The state machine: the consensus layer mints proposal ids in order, and  *)
(* calls execute (handle_auth_req) before sync (sync_request) for each id;  *)
(* syncs are applied one at a time.                                         *)

\* the backend as one value
Backend ==
    [revision |-> revision, users |-> users, roles |-> roles, auth_enable |-> auth_enable,
     enabled |-> enabled, cache |-> cache, sp_exec_pool |-> sp_exec_pool,
     token_manager |-> token_manager, writes |-> <<>>]

Install(s) ==
    /\ revision' = s.revision
    /\ users' = s.users
    /\ roles' = s.roles
    /\ auth_enable' = s.auth_enable
    /\ enabled' = s.enabled
    /\ cache' = s.cache
    /\ sp_exec_pool' = s.sp_exec_pool
    /\ token_manager' = s.token_manager

\* what `last` records of a call
Call(op, id, ctx, ok, resp, writes, before) ==
    [op |-> op, id |-> id, req |-> ctx.req, met_err |-> ctx.met_err, ok |-> ok,
     resp |-> resp, writes |-> writes, revision_before |-> before]

\* the server is started with a key pair, so token_manager is Some
KeyPairGiven == TRUE

\* no thread is inside sync_request
Idle ==
    [pc |-> "idle", id |-> 0, ctx |-> [req |-> Request("None"), met_err |-> FALSE],
     main |-> 0, user |-> <<>>, names |-> <<>>, i |-> 0, sub_revision |-> 0,
     new_perms |-> EmptyMap, writes |-> <<>>, pre |-> <<>>, post |-> <<>>]

NothingObserved ==
    [by |-> "none", what |-> "", in_flight |-> FALSE, sees_before |-> FALSE,
     sees_after |-> FALSE]

Init ==
    /\ sync_thread = Idle
    /\ observed = NothingObserved
    /\ synced = {}
    /\ LET s == BackendNew(KeyPairGiven)
        IN  /\ revision = s.revision
            /\ users = s.users
            /\ roles = s.roles
            /\ auth_enable = s.auth_enable
            /\ enabled = s.enabled
            /\ cache = s.cache
            /\ sp_exec_pool = s.sp_exec_pool
            /\ token_manager = s.token_manager
    /\ next_id = 1
    /\ last = Call("new", 0, [req |-> Request("None"), met_err |-> FALSE], TRUE, NoBody,
                   <<>>, RevisionNew)

Execute(id, wrapper, max_proposals, max_in_flight) ==
    /\ id = next_id
    /\ id <= max_proposals
    /\ Cardinality(DOMAIN sp_exec_pool) < max_in_flight
    /\ LET out == handle_auth_req(Backend, id, wrapper)
       IN  /\ Install(out.s)
           /\ last' = Call("execute", id, out.s.sp_exec_pool[id], out.res.ok, out.res.resp,
                           out.s.writes, revision)
    /\ next_id' = next_id + 1
    /\ UNCHANGED synced

Sync(id) ==
    /\ id \in DOMAIN sp_exec_pool
    /\ LET out == sync_request(Backend, id)
       IN  /\ Install(out.s)
           /\ last' = Call("sync", id, sp_exec_pool[id], out.ok, NoBody, out.s.writes,
                           revision)
    /\ synced' = synced \cup {id}
    /\ UNCHANGED next_id

\* every request type over every name, a few proposals, two of them in flight
Next ==
    /\ \/ \E wrapper \in Requests : Execute(next_id, wrapper, MaxProposals, MaxInFlight)
       \/ \E id \in DOMAIN sp_exec_pool : Sync(id)
    /\ UNCHANGED <<sync_thread, observed>>

Spec == Init /\ [][Next]_vars

\* the request types whose sync_* function writes the store
MutatingTypes ==
    {"AuthEnable", "AuthDisable", "AuthUserAdd", "AuthUserDelete", "AuthUserChangePassword",
     "AuthUserGrantRole", "AuthUserRevokeRole", "AuthRoleAdd", "AuthRoleDelete",
     "AuthRoleGrantPermission", "AuthRoleRevokePermission"}

\* the mutating requests over two users, two roles and one key range
SeqRequests ==
    {w \in RequestsOver(UserNames, RoleNames, {<<"a", "">>}) :
        w.type \in MutatingTypes /\ w.options = <<>>}

\* longer behaviours, each proposal synced before the next is executed
NextSeq ==
    /\ \/ \E wrapper \in SeqRequests : Execute(next_id, wrapper, SeqProposals, 1)
       \/ \E id \in DOMAIN sp_exec_pool : Sync(id)
    /\ UNCHANGED <<sync_thread, observed>>

SpecSeq == Init /\ [][NextSeq]_vars

\* the mutating requests over the root user, two roles and one key range
RaceRequests ==
    {w \in RequestsOver({ROOT_USER}, RoleNames, {<<"a", "">>}) :
        w.type \in MutatingTypes /\ w.options = <<>>}

\* execute of one proposal between execute and sync of another
NextRace ==
    /\ \/ \E wrapper \in RaceRequests : Execute(next_id, wrapper, RaceProposals, MaxInFlight)
       \/ \E id \in DOMAIN sp_exec_pool : Sync(id)
    /\ UNCHANGED <<sync_thread, observed>>

SpecRace == Init /\ [][NextRace]_vars

\* the requests on the permissions of one role, over every key range
PermRequests ==
    {w \in RequestsOver({}, {"dev"}, KeyRanges) :
        w.type \in {"AuthRoleAdd", "AuthRoleDelete", "AuthRoleGrantPermission",
                    "AuthRoleRevokePermission"}}

\* grants and revokes on one role, interleaved
NextPerm ==
    /\ \/ \E wrapper \in PermRequests : Execute(next_id, wrapper, PermProposals, MaxInFlight)
       \/ \E id \in DOMAIN sp_exec_pool : Sync(id)
    /\ UNCHANGED <<sync_thread, observed>>

SpecPerm == Init /\ [][NextPerm]_vars

\* the requests that give roles permissions and users roles, and take them away
RolesRequests ==
    {w \in RequestsOver(UserNames, RoleNames, {<<"a", "">>}) :
        /\ w.type \in {"AuthUserAdd", "AuthRoleAdd", "AuthRoleGrantPermission",
                       "AuthUserGrantRole", "AuthUserRevokeRole", "AuthRoleDelete"}
        /\ w.options = <<>>
        /\ w.perm # <<>> => w.perm[1].perm_type = "Readwrite"}

\* users holding two roles with permissions, each proposal synced before the next
NextRoles ==
    /\ \/ \E wrapper \in RolesRequests : Execute(next_id, wrapper, RolesProposals, 1)
       \/ \E id \in DOMAIN sp_exec_pool : Sync(id)
    /\ UNCHANGED <<sync_thread, observed>>

SpecRoles == Init /\ [][NextRoles]_vars

\* the requests that lead to AuthEnable, those it guards, and those that read it
LifeRequests ==
    {w \in RequestsOver(UserNames, {ROOT_ROLE}, {}) :
        /\ w.type \in {"AuthUserAdd", "AuthUserDelete", "AuthUserGrantRole",
                       "AuthUserRevokeRole", "AuthRoleAdd", "AuthEnable", "AuthDisable",
                       "AuthStatus", "Authenticate"}
        /\ w.options = <<>>}

\* enabling and disabling auth, with execute of one proposal between execute and
\* sync of another
NextLife ==
    /\ \/ \E wrapper \in LifeRequests : Execute(next_id, wrapper, LifeProposals, MaxInFlight)
       \/ \E id \in DOMAIN sp_exec_pool : Sync(id)
    /\ UNCHANGED <<sync_thread, observed>>

SpecLife == Init /\ [][NextLife]_vars

\* the requests that add and delete one user and grant it one role
UsersRequests ==
    {w \in RequestsOver({"alice"}, {"dev"}, {}) :
        /\ w.type \in {"AuthUserAdd", "AuthRoleAdd", "AuthUserGrantRole", "AuthUserDelete"}
        /\ w.options = <<>>}

\* one user added, granted a role and deleted, with execute of one proposal
\* between execute and sync of another
NextUsers ==
    /\ \/ \E wrapper \in UsersRequests :
              Execute(next_id, wrapper, UsersProposals, MaxInFlight)
       \/ \E id \in DOMAIN sp_exec_pool : Sync(id)
    /\ UNCHANGED <<sync_thread, observed>>

SpecUsers == Init /\ [][NextUsers]_vars

\* the requests that give one user the root role and delete that role
DeletesRequests ==
    {w \in RequestsOver({"alice"}, {ROOT_ROLE}, {}) :
        /\ w.type \in {"AuthUserAdd", "AuthRoleAdd", "AuthUserGrantRole", "AuthRoleDelete"}
        /\ w.options = <<>>}

\* deletes of one role, with execute of one proposal between execute and sync of
\* another
NextDeletes ==
    /\ \/ \E wrapper \in DeletesRequests :
              Execute(next_id, wrapper, DeletesProposals, MaxInFlight)
       \/ \E id \in DOMAIN sp_exec_pool : Sync(id)
    /\ UNCHANGED <<sync_thread, observed>>

SpecDeletes == Init /\ [][NextDeletes]_vars

----------------------------------------------------------------------------
(* sync_request step by step.  execute runs on other threads and takes no    *)
(* lock that sync holds; the cache lock is held by sync only inside each     *)
(* map_write closure.  The two sync functions below are followed write by    *)
(* write: revision.next(), each put / delete, the map_write closure.  The    *)
(* reads of a sync are folded into its next write (nothing else writes the   *)
(* store meanwhile).  The other sync functions are taken in one step.        *)

\* get_user_permissions_from_cache
get_user_permissions_from_cache(s, username) ==
    IF username \in DOMAIN s.cache.user_permissions
    THEN Ok(s.cache.user_permissions[username])
    ELSE Err("user permissions not found")

\* what execute and cache reads can see of a store
View(s) == <<s.revision, s.users, s.roles, s.auth_enable, s.enabled, s.cache>>

\* the backend as the thread inside sync_request has it
BackendInSync == [Backend EXCEPT !.writes = sync_thread.writes]

\* the syncs that are followed step by step
Stepwise(ctx) ==
    /\ ~ctx.met_err
    /\ \/ ctx.req.type = "AuthRoleDelete"
       \/ ctx.req.type = "AuthUserRevokeRole" /\ RevokeRoleAllocate(Backend, ctx.req).ok

\* an execute or a cache read ran against the store as it is now
Observe(by, what) ==
    observed' = [by |-> by, what |-> what,
                 in_flight |-> sync_thread.pc # "idle",
                 sees_before |-> View(Backend) = sync_thread.pre,
                 sees_after |-> View(Backend) = sync_thread.post]

FineExecute(wrapper) ==
    /\ Execute(next_id, wrapper, FineProposals, MaxInFlight)
    /\ Observe("execute", wrapper.type)
    /\ UNCHANGED sync_thread

ReadCache(username) ==
    /\ get_user_permissions_from_cache(Backend, username).ok
    /\ Observe("read_cache", username)
    /\ UNCHANGED <<revision, users, roles, auth_enable, enabled, cache, sp_exec_pool,
                   token_manager, next_id, last, sync_thread, synced>>

SyncWhole(id) ==
    /\ sync_thread.pc = "idle"
    /\ ~Stepwise(sp_exec_pool[id])
    /\ Sync(id)
    /\ UNCHANGED <<sync_thread, observed>>

\* sync_request pops the context
Popped(id) == [Backend EXCEPT !.sp_exec_pool = MapRemove(sp_exec_pool, id)]

Enter(id, pc, main, user) ==
    [Idle EXCEPT !.pc = pc, !.id = id, !.ctx = sp_exec_pool[id], !.main = main, !.user = user,
                 !.sub_revision = 1,
                 !.pre = View(Backend), !.post = View(sync_request(Backend, id).s)]

Return ==
    /\ last' = Call("sync", sync_thread.id, sync_thread.ctx, TRUE, NoBody, sync_thread.writes,
                    sync_thread.main - 1)
    /\ sync_thread' = Idle

\* sync_user_revoke_role_request: get_user, binary_search, revision.next()
RevokeRoleBegin(id) ==
    /\ sync_thread.pc = "idle"
    /\ Stepwise(sp_exec_pool[id])
    /\ sp_exec_pool[id].req.type = "AuthUserRevokeRole"
    /\ LET alloc == RevokeRoleAllocate(Popped(id), sp_exec_pool[id].req)
       IN  /\ Install(alloc.s)
           /\ sync_thread' = Enter(id, "revoke_put_user", alloc.s.revision, alloc.user)
    /\ synced' = synced \cup {id}
    /\ UNCHANGED <<next_id, last, observed>>

\* sync_user_revoke_role_request: put_user
RevokeRolePutUser ==
    /\ sync_thread.pc = "revoke_put_user"
    /\ LET s2 == put_user(BackendInSync, sync_thread.user, sync_thread.main, 0)
       IN  /\ Install(s2)
           /\ sync_thread' = [sync_thread EXCEPT !.pc = "revoke_cache", !.writes = s2.writes]
    /\ UNCHANGED <<next_id, last, observed, synced>>

\* sync_user_revoke_role_request: the map_write closure, and the return
RevokeRoleCache ==
    /\ sync_thread.pc = "revoke_cache"
    /\ Install(RevokeRoleCacheUpdate(BackendInSync, sync_thread.ctx.req, sync_thread.user))
    /\ Return
    /\ UNCHANGED <<next_id, observed, synced>>

\* sync_role_delete_request: revision.next()
RoleDeleteBegin(id) ==
    /\ sync_thread.pc = "idle"
    /\ Stepwise(sp_exec_pool[id])
    /\ sp_exec_pool[id].req.type = "AuthRoleDelete"
    /\ LET s1 == RevisionNext(Popped(id))
       IN  /\ Install(s1)
           /\ sync_thread' = Enter(id, "delete_role", s1.revision, <<>>)
    /\ synced' = synced \cup {id}
    /\ UNCHANGED <<next_id, last, observed>>

\* sync_role_delete_request: delete_role, then the get_all_users() snapshot
RoleDeleteTombstone ==
    /\ sync_thread.pc = "delete_role"
    /\ LET s2 == delete_role(BackendInSync, sync_thread.ctx.req.role, sync_thread.main, 0)
       IN  /\ Install(s2)
           /\ sync_thread' = [sync_thread EXCEPT !.pc = "cascade", !.writes = s2.writes,
                                  !.names = SortedNames(DOMAIN s2.users), !.i = 1]
    /\ UNCHANGED <<next_id, last, observed, synced>>

\* sync_role_delete_request: one iteration of the loop over the snapshot
RoleDeleteRewriteUser ==
    /\ sync_thread.pc = "cascade"
    /\ sync_thread.i <= Len(sync_thread.names)
    /\ LET acc == RoleDeleteUser([s |-> BackendInSync,
                                  sub_revision |-> sync_thread.sub_revision,
                                  new_perms |-> sync_thread.new_perms],
                                 sync_thread.names[sync_thread.i],
                                 sync_thread.ctx.req.role, sync_thread.main)
       IN  /\ Install(acc.s)
           /\ sync_thread' = [sync_thread EXCEPT !.i = @ + 1, !.writes = acc.s.writes,
                                  !.sub_revision = acc.sub_revision,
                                  !.new_perms = acc.new_perms]
    /\ UNCHANGED <<next_id, last, observed, synced>>

\* sync_role_delete_request: the map_write closure, and the return
RoleDeleteCache ==
    /\ sync_thread.pc = "cascade"
    /\ sync_thread.i > Len(sync_thread.names)
    /\ Install(RoleDeleteCacheUpdate(BackendInSync, sync_thread.ctx.req,
                                     sync_thread.new_perms))
    /\ Return
    /\ UNCHANGED <<next_id, observed, synced>>

\* users, one role, and the requests that grant, revoke and delete it
FineRequests ==
    {w \in RequestsOver(UserNames, {ROOT_ROLE}, {<<"a", "">>}) :
        /\ w.type \in {"AuthUserAdd", "AuthUserGrantRole", "AuthUserRevokeRole", "AuthRoleAdd",
                       "AuthRoleDelete", "AuthRoleGrantPermission", "AuthStatus"}
        /\ w.options = <<>>
        /\ w.perm # <<>> => w.perm[1].perm_type = "Read"}

NextFine ==
    \/ \E wrapper \in FineRequests : FineExecute(wrapper)
    \/ \E username \in UserNames : ReadCache(username)
    \/ \E id \in DOMAIN sp_exec_pool : SyncWhole(id)
    \/ \E id \in DOMAIN sp_exec_pool : RevokeRoleBegin(id)
    \/ RevokeRolePutUser
    \/ RevokeRoleCache
    \/ \E id \in DOMAIN sp_exec_pool : RoleDeleteBegin(id)
    \/ RoleDeleteTombstone
    \/ RoleDeleteRewriteUser
    \/ RoleDeleteCache

SpecFine == Init /\ [][NextFine]_vars

----------------------------------------------------------------------------
(* Properties *)

\* the fields execute and sync may write, besides the pool
Store == <<revision, users, roles, auth_enable, enabled, cache>>

Range(v) == {v[i] : i \in 1..Len(v)}

Count(v, x) == Cardinality({i \in 1..Len(v) : v[i] = x})

\* the same elements the same number of times
SameBag(v, w) == \A x \in Range(v) \cup Range(w) : Count(v, x) = Count(w, x)

Synced(type) == last.op = "sync" /\ last.req.type = type

\* C1: every execute, of every request type, leaves the revision counter, the
\* persisted users, roles and auth_enable record, the enabled flag and the
\* permission cache as they were; all it changes is the pool, which gains
\* (request, failed flag) under the proposal id
ExecuteOnlyRecordsContext ==
    [][last'.op = "execute" =>
          /\ UNCHANGED Store
          /\ last'.id \notin DOMAIN sp_exec_pool
          /\ sp_exec_pool' = MapInsert(sp_exec_pool, last'.id,
                                 [req |-> last'.req, met_err |-> ~last'.ok])]_vars

\* a request that passes validation was executed against a store that already
\* holds a user and a role
ExecuteOnPopulatedStore ==
    /\ last.op = "execute"
    /\ last.ok
    /\ last.req.type = "AuthUserGrantRole"
    /\ last.id \in DOMAIN sp_exec_pool
    /\ revision = 2
    /\ DOMAIN users # {}
    /\ DOMAIN roles # {}

\* the permissions of the roles a persisted user holds, as a rebuild derives them
RebuiltPermissions(u) == get_user_permissions(Backend, users[u])

\* the persisted users that hold role r
Holders(r) == {u \in DOMAIN users : r \in Range(users[u].roles)}

CachedUsersOf(r) ==
    IF r \in DOMAIN cache.role_to_users_map THEN Range(cache.role_to_users_map[r]) ELSE {}

\* C2: between execute/sync pairs the permission cache is what a rebuild from the
\* persisted state gives: one user_permissions entry per persisted user, equal as
\* a multiset to the permissions of the roles it holds, and role_to_users[r] the
\* set of the persisted users that hold r
CacheEqualsRebuild ==
    sp_exec_pool = EmptyMap =>
        /\ DOMAIN cache.user_permissions = DOMAIN users
        /\ \A u \in DOMAIN users :
              /\ SameBag(cache.user_permissions[u].read, RebuiltPermissions(u).read)
              /\ SameBag(cache.user_permissions[u].write, RebuiltPermissions(u).write)
        /\ \A r \in RoleNames : CachedUsersOf(r) = Holders(r)

\* the sync of a proposal whose execute did not err returned Ok
SyncSucceeded == last.op = "sync" /\ ~last.met_err /\ last.ok

\* C3 as claimed: every sync that succeeds leaves the revision counter strictly
\* greater than it was before the call
EverySuccessfulSyncAdvances == SyncSucceeded => revision > last.revision_before

\* the requests whose successful sync allocates a revision: the read-only types do
\* not, nor does AuthEnable / AuthDisable that finds the flag already set
Applies(req, was_enabled) ==
    CASE req.type = "AuthEnable" -> ~was_enabled
      [] req.type = "AuthDisable" -> was_enabled
      [] OTHER -> req.type \in MutatingTypes

\* C3 amended: a sync that succeeds leaves the revision counter greater by exactly
\* one when its request applies a mutation, and unchanged otherwise
SuccessfulSyncAdvancesWhenApplied ==
    [][(last'.op = "sync" /\ ~last'.met_err /\ last'.ok) =>
          revision' = IF Applies(last'.req, enabled) THEN revision + 1 ELSE revision]_vars

\* a granted role was synced and took the revision after the previous one
MutationAdvanced ==
    /\ SyncSucceeded
    /\ last.req.type = "AuthUserGrantRole"
    /\ last.revision_before = 1
    /\ revision = 2

\* C4: the sync of a proposal whose execute erred returns Ok, removes the
\* proposal's pool entry and leaves everything else as it was
FailedExecuteSyncIsNoOp ==
    [][(last'.op = "sync" /\ last'.met_err) =>
          /\ last'.ok
          /\ UNCHANGED Store
          /\ sp_exec_pool' = MapRemove(sp_exec_pool, last'.id)]_vars

\* a proposal whose execute erred was synced against a populated store
FailedExecuteSynced ==
    /\ last.op = "sync"
    /\ last.met_err
    /\ last.req.type \in MutatingTypes
    /\ revision > 0
    /\ DOMAIN users # {}

\* the sync of a proposal whose execute did not err returned Err
SyncRejected == last.op = "sync" /\ ~last.met_err /\ ~last.ok

\* C5: a sync that itself returns a validation error, for a proposal whose execute
\* succeeded, has not advanced the revision counter and has left the persisted
\* records, the enabled flag and the permission cache as they were
RejectedSyncChangesNothing ==
    [][(last'.op = "sync" /\ ~last'.met_err /\ ~last'.ok) => UNCHANGED Store]_vars

\* a UserGrantRole passed execute, its role was deleted before its sync, and the
\* sync returned the error
GrantOfVanishedRoleRejected ==
    /\ SyncRejected
    /\ last.req.type = "AuthUserGrantRole"
    /\ last.req.user \in DOMAIN users
    /\ last.req.role \notin DOMAIN roles
    /\ revision > 2

StrictlyAscendingNames(v) == \A i, j \in 1..Len(v) : i < j => Rank[v[i]] < Rank[v[j]]

\* C6: in every reachable state the roles of every persisted user are strictly
\* ascending by role name (so no role occurs twice)
UserRolesStrictlyAscending ==
    \A u \in DOMAIN users : StrictlyAscendingNames(users[u].roles)

\* a role was granted to a user that held a greater one, and went in front of it
RoleInsertedInFront ==
    /\ SyncSucceeded
    /\ last.req.type = "AuthUserGrantRole"
    /\ last.req.role = "dev"
    /\ users[last.req.user].roles = <<"dev", ROOT_ROLE>>

PermLess(p, q) == PermCmp(p, q.key, q.range_end) < 0

StrictlyAscendingPermissions(v) == \A i, j \in 1..Len(v) : i < j => PermLess(v[i], v[j])

PermissionsSorted == \A r \in DOMAIN roles : StrictlyAscendingPermissions(roles[r].key_permission)

\* the positions of (key, range_end) in a permission list
PositionsOf(v, perm) ==
    {i \in 1..Len(v) : v[i].key = perm.key /\ v[i].range_end = perm.range_end}

\* what a successful RoleGrantPermission sync does to the role's list
GrantKeepsListSorted ==
    (last'.op = "sync" /\ ~last'.met_err /\ last'.ok
        /\ last'.req.type = "AuthRoleGrantPermission") =>
    LET perm == last'.req.perm[1]
        old == roles[last'.req.name].key_permission
        new == roles'[last'.req.name].key_permission
    IN  IF PositionsOf(old, perm) # {}
        THEN /\ Len(new) = Len(old)
             /\ \A i \in 1..Len(old) :
                   new[i] = IF i \in PositionsOf(old, perm)
                            THEN [old[i] EXCEPT !.perm_type = perm.perm_type]
                            ELSE old[i]
        ELSE /\ Len(new) = Len(old) + 1
             /\ \E idx \in 0..Len(old) : new = VecInsert(old, idx, perm)
             /\ StrictlyAscendingPermissions(new)

\* C7: the key_permission list of every persisted role is strictly ascending by
\* (key, range_end) in every reachable state; a RoleGrantPermission of a
\* (key, range_end) the role has overwrites that entry's perm_type in place and
\* keeps the length, and of one it has not inserts one entry at its sorted place
RolePermissionsStaySorted == []PermissionsSorted /\ [][GrantKeepsListSorted]_vars

\* a permission was granted between the two the role had
PermissionInsertedBetween ==
    /\ SyncSucceeded
    /\ last.req.type = "AuthRoleGrantPermission"
    /\ Len(roles[last.req.name].key_permission) = 3
    /\ roles[last.req.name].key_permission[2] = last.req.perm[1]
    /\ last.req.perm[1].range_end = "b"

\* one application of a request to a store: execute, then sync, under a new id
Apply(s, req) == sync_request(handle_auth_req(s, next_id, req).s, next_id).s

\* the fields C8 compares
Observable(s) == <<s.enabled, s.users, s.roles, s.auth_enable, s.revision, s.cache>>

\* C8: from every reachable state, AuthEnable applied twice gives the enabled
\* flag, persisted records, revision counter and permission cache that applying
\* it once gives, and so does AuthDisable
EnableDisableIdempotent ==
    \A t \in {"AuthEnable", "AuthDisable"} :
        Observable(Apply(Apply(Backend, Request(t)), Request(t)))
            = Observable(Apply(Backend, Request(t)))

\* no proposal is in flight, auth is disabled and root holds the root role, so an
\* AuthEnable applied here turns the flag on and a second one finds it on
EnableWouldApply ==
    /\ sp_exec_pool = EmptyMap
    /\ ~enabled
    /\ handle_auth_enable_request(Backend, Request("AuthEnable")).ok
    /\ Apply(Backend, Request("AuthEnable")).enabled
    /\ Apply(Backend, Request("AuthEnable")).revision = revision + 1

\* C10: after a successful RoleGrantPermission sync every persisted user that holds
\* the role has the granted range in its cached read list when the type is Read
\* or Readwrite and in its cached write list when it is Write or Readwrite
GrantedRangeReachesHolders ==
    (SyncSucceeded /\ last.req.type = "AuthRoleGrantPermission") =>
        LET perm == last.req.perm[1]
            key_range == KeyRange(perm.key, perm.range_end)
        IN  \A u \in Holders(last.req.name) :
                /\ u \in DOMAIN cache.user_permissions
                /\ perm.perm_type \in {"Read", "Readwrite"} =>
                       key_range \in Range(cache.user_permissions[u].read)
                /\ perm.perm_type \in {"Write", "Readwrite"} =>
                       key_range \in Range(cache.user_permissions[u].write)

\* a sync followed step by step ends in the store that sync_request gives in one step
StepwiseSyncEndsAsWhole ==
    [][(sync_thread.pc # "idle" /\ sync_thread'.pc = "idle") =>
          View(Backend)' = sync_thread.post]_vars

\* C9: an execute of another proposal, or a cache read, that runs while a sync is
\* in flight sees the store either as it was before that sync or as it is after
\* it: never the revision or some persisted writes of the sync without its cache
\* update or its remaining writes
SyncLooksAtomic == observed.in_flight => (observed.sees_before \/ observed.sees_after)

\* the sync of a RoleDelete whose execute did not err returns Ok in this step
RoleDeleteSyncs ==
    last'.op = "sync" /\ ~last'.met_err /\ last'.ok /\ last'.req.type = "AuthRoleDelete"

\* C11: after a successful RoleDelete(r) sync the role r is not persisted, no
\* persisted user lists r, every user that held r has a cache entry equal to the
\* permissions of the roles it still holds, and role_to_users has no entry for r
RoleDeleteCascades ==
    [][RoleDeleteSyncs =>
          LET r == last'.req.role
          IN  /\ r \notin DOMAIN roles'
              /\ \A u \in DOMAIN users' : r \notin Range(users'[u].roles)
              /\ \A u \in Holders(r) :
                    /\ u \in DOMAIN cache'.user_permissions
                    /\ cache'.user_permissions[u] = RebuiltPermissions(u)'
              /\ r \notin DOMAIN cache'.role_to_users_map]_vars

\* a role was deleted from under a user that holds another role with a permission:
\* the user was rewritten under the revision of the tombstone and keeps that
\* permission, and only that, in the cache
RoleDeletedUnderHolderOfTwo ==
    /\ SyncSucceeded
    /\ last.req.type = "AuthRoleDelete"
    /\ \E u \in DOMAIN users :
          /\ \E i \in 2..Len(last.writes) :
                /\ last.writes[i].key = <<"user/", u>>
                /\ last.writes[i].revision = last.writes[1].revision
                /\ last.writes[i].sub_revision = i - 1
          /\ Len(users[u].roles) = 1
          /\ Len(cache.user_permissions[u].read) = 1
          /\ Len(cache.user_permissions[u].write) = 1

\* this step executes again the UserGrantRole(u, r) that was just synced with
\* success, the role r being persisted
SecondGrantExecutes ==
    /\ SyncSucceeded
    /\ last.req.type = "AuthUserGrantRole"
    /\ last.req.role \in DOMAIN roles
    /\ last'.op = "execute"
    /\ last'.req = last.req

\* this step syncs a UserGrantRole(u, r) that passed execute while u held r
SecondGrantSyncs ==
    /\ last.op = "execute"
    /\ last.ok
    /\ last.req.type = "AuthUserGrantRole"
    /\ last.req.role \in DOMAIN roles
    /\ binary_search(users[last.req.user].roles, last.req.role).ok
    /\ last'.op = "sync"
    /\ last'.id = last.id

\* C12 as claimed: the execute of the second of two UserGrantRole(u, r) in sequence
\* returns InvalidCommand, and its sync leaves the revision counter unchanged
SecondGrantFailsAtExecute ==
    [][/\ SecondGrantExecutes => ~last'.ok
       /\ SecondGrantSyncs => revision' = revision]_vars

\* C12 amended: the execute of the second of two UserGrantRole(u, r) in sequence
\* returns Ok; it is its sync that returns InvalidCommand, and leaves the revision
\* counter, the persisted records and the permission cache unchanged
SecondGrantFailsAtSync ==
    [][/\ SecondGrantExecutes => last'.ok
       /\ SecondGrantSyncs => (~last'.ok /\ UNCHANGED Store)]_vars

\* the second of two grants of a persisted role was rejected by its sync, two
\* revisions after the user and the role were added
SecondGrantRejected ==
    /\ SyncRejected
    /\ last.req.type = "AuthUserGrantRole"
    /\ last.req.role \in DOMAIN roles
    /\ last.req.user \in DOMAIN users
    /\ binary_search(users[last.req.user].roles, last.req.role).ok
    /\ revision = 3
    /\ last.revision_before = 3

AfterLifecycle ==
    LET user_add == [Request("AuthUserAdd") EXCEPT !.name = ROOT_USER, !.hashed_password = "p1"]
        role_add == [Request("AuthRoleAdd") EXCEPT !.name = ROOT_ROLE]
        grant == [Request("AuthUserGrantRole") EXCEPT !.user = ROOT_USER, !.role = ROOT_ROLE]
    IN  Apply(Apply(Apply(Apply(BackendNew(KeyPairGiven), user_add), role_add), grant),
              Request("AuthEnable"))

Executed(type) == last.op = "execute" /\ last.req.type = type

FailedExecuteSyncs == last'.op = "sync" /\ last'.met_err

DeletesRoot(req) == req.type = "AuthUserDelete" /\ req.name = ROOT_USER

\* C15: an execute of UserDelete(root) that runs while auth is enabled returns
\* InvalidCommand and records the failure, and the sync of that proposal leaves
\* the persisted users (root among them) and the revision counter as they were
RootNotDeletedWhileEnabled ==
    [][/\ (last'.op = "execute" /\ DeletesRoot(last'.req) /\ enabled) =>
              /\ ~last'.ok
              /\ last'.resp = "root user cannot be deleted"
              /\ sp_exec_pool'[last'.id].met_err
       /\ (FailedExecuteSyncs /\ DeletesRoot(last'.req)) =>
              /\ last'.ok
              /\ UNCHANGED <<users, revision>>]_vars

\* the fifth and last proposal, UserDelete(root), was rejected by execute and then
\* synced.  The four proposals before it each allocated a revision, auth is
\* enabled and root is persisted: they were the four that lead to AuthEnable, root
\* was persisted when UserGrantRole was executed, so the fifth found root and was
\* rejected for the enabled flag
RootDeleteRejectedAndSynced ==
    /\ last.op = "sync"
    /\ last.met_err
    /\ DeletesRoot(last.req)
    /\ last.id = 5
    /\ next_id = 6
    /\ revision = 4
    /\ enabled
    /\ ROOT_USER \in DOMAIN users

RevokesRootRole(req) ==
    req.type = "AuthUserRevokeRole" /\ req.name = ROOT_USER /\ req.role = ROOT_ROLE

\* C16: an execute of UserRevokeRole(root, root) that runs while auth is enabled
\* returns InvalidCommand and records the failure, and the sync of that proposal
\* leaves the persisted users (root and its roles among them) and the revision
\* counter as they were
RootRoleNotRevokedWhileEnabled ==
    [][/\ (last'.op = "execute" /\ RevokesRootRole(last'.req) /\ enabled) =>
              /\ ~last'.ok
              /\ last'.resp = "root user cannot revoke root role"
              /\ sp_exec_pool'[last'.id].met_err
       /\ (FailedExecuteSyncs /\ RevokesRootRole(last'.req)) =>
              /\ last'.ok
              /\ UNCHANGED <<users, revision>>]_vars

\* the fifth and last proposal, UserRevokeRole(root, root), was rejected by execute
\* and then synced, after the four proposals that lead to AuthEnable; root holds
\* the role
RootRevokeRejectedAndSynced ==
    /\ last.op = "sync"
    /\ last.met_err
    /\ RevokesRootRole(last.req)
    /\ last.id = 5
    /\ next_id = 6
    /\ revision = 4
    /\ enabled
    /\ ROOT_USER \in DOMAIN users
    /\ binary_search(users[ROOT_USER].roles, ROOT_ROLE).ok

\* while auth is disabled check_password rejects every user name and password
DisabledRejectsPasswords ==
    ~enabled =>
        \A username \in UserNames, password \in PlainPasswords :
            check_password(Backend, username, password) = Err("auth is not enabled")

\* C17: while auth is disabled every execute of Authenticate, whatever the user
\* name, returns InvalidCommand("auth is not enabled") in place of a token and
\* records the failure, check_password returns the same error, and the sync of a
\* failed Authenticate changes nothing but the pool
AuthenticateNeedsEnabledAuth ==
    /\ []DisabledRejectsPasswords
    /\ [][/\ (last'.op = "execute" /\ last'.req.type = "Authenticate" /\ ~enabled) =>
                 /\ ~last'.ok
                 /\ last'.resp = "auth is not enabled"
                 /\ sp_exec_pool'[last'.id].met_err
          /\ (FailedExecuteSyncs /\ last'.req.type = "Authenticate") =>
                 /\ last'.ok
                 /\ UNCHANGED Store]_vars

\* an Authenticate of a persisted user was rejected by execute (it found auth
\* disabled: Authenticate fails for no other reason) and then synced, auth being
\* disabled again after it had been enabled
RejectedAuthenticateSynced ==
    /\ last.op = "sync"
    /\ last.met_err
    /\ last.req.type = "Authenticate"
    /\ last.req.name \in DOMAIN users
    /\ ~enabled
    /\ auth_enable # <<>>

\* root is persisted and holds the root role
RootHoldsRootRole ==
    /\ ROOT_USER \in DOMAIN users
    /\ binary_search(users[ROOT_USER].roles, ROOT_ROLE).ok

\* C18: an execute of AuthEnable succeeds only in a store where root is persisted
\* and holds the root role; the sync of one that failed leaves the enabled flag as
\* it was; so the flag turns true only in the sync of an AuthEnable whose execute
\* succeeded
EnableRequiresRoot ==
    /\ [](Executed("AuthEnable") /\ last.ok => RootHoldsRootRole)
    /\ [][/\ (FailedExecuteSyncs /\ last'.req.type = "AuthEnable") => enabled' = enabled
          /\ (~enabled /\ enabled') =>
                 (last'.op = "sync" /\ last'.req.type = "AuthEnable" /\ ~last'.met_err)]_vars

\* the sync of an AuthEnable found auth disabled and enabled it
EnabledBySync == SyncSucceeded /\ last.req.type = "AuthEnable" /\ last.writes # <<>>

\* C19: right after the sync that takes auth from disabled to enabled,
\* user_permissions has an entry for every persisted user, equal to the
\* permissions derived from its roles, and role_to_users[r] lists every persisted
\* user that holds r
EnableRebuildsBothMaps ==
    EnabledBySync =>
        /\ DOMAIN cache.user_permissions = DOMAIN users
        /\ \A u \in DOMAIN users : cache.user_permissions[u] = RebuiltPermissions(u)
        /\ \A r \in RoleNames : Holders(r) \subseteq CachedUsersOf(r)

\* the ProposeIds handle_auth_req has returned for
Executed_ids == 1..(next_id - 1)

\* C20: the pool holds an entry under p exactly when the execute of p has
\* completed and its sync has not started, whether the execute failed or not; the
\* call of sync for p removes the entry of p and no other; so the pool is empty
\* once every executed proposal has been synced
PoolHoldsExecutedUnsynced ==
    /\ [](DOMAIN sp_exec_pool = Executed_ids \ synced)
    /\ [](synced = Executed_ids => sp_exec_pool = EmptyMap)
    /\ [][\A p \in synced' \ synced :
              /\ p \in DOMAIN sp_exec_pool
              /\ sp_exec_pool' = MapRemove(sp_exec_pool, p)]_vars

\* the second proposal has been synced while the first, whose execute failed, and
\* the third still have their entries
FailedExecuteStillPooled ==
    /\ synced = {2}
    /\ DOMAIN sp_exec_pool = {1, 3}
    /\ sp_exec_pool[1].met_err
    /\ ~sp_exec_pool[3].met_err

\* the cache entry holds the range of the permission in the lists of its type
Covers(entry, perm) ==
    LET key_range == KeyRange(perm.key, perm.range_end)
    IN  /\ perm.perm_type \in {"Read", "Readwrite"} => key_range \in Range(entry.read)
        /\ perm.perm_type \in {"Write", "Readwrite"} => key_range \in Range(entry.write)

\* C21: after a successful UserGrantRole(user, role) sync, also of the role root
\* while no root role is persisted, the persisted roles of the user contain the
\* role, role_to_users[role] lists the user, and the cache entry of the user holds
\* every permission of the role
GrantRoleReachesCache ==
    (SyncSucceeded /\ last.req.type = "AuthUserGrantRole") =>
        LET u == last.req.user
            r == last.req.role
        IN  /\ u \in DOMAIN users
            /\ r \in Range(users[u].roles)
            /\ u \in CachedUsersOf(r)
            /\ r \in DOMAIN roles =>
                  /\ u \in DOMAIN cache.user_permissions
                  /\ \A perm \in Range(roles[r].key_permission) :
                        Covers(cache.user_permissions[u], perm)

\* a map without the entry of key k
Without(map, k) == [x \in (DOMAIN map) \ {k} |-> map[x]]

\* this step is the sync, returning Ok, of a proposal of this type that passed execute
SyncsWithSuccess(type) ==
    last'.op = "sync" /\ ~last'.met_err /\ last'.ok /\ last'.req.type = type

\* C22: after a successful UserDelete(u) sync u is not persisted, has no entry in
\* user_permissions and is in no role_to_users list, while the records and cache
\* entries of the other users, and their places in the role_to_users lists, are
\* as they were
UserDeleteRemovesOnlyUser ==
    [][SyncsWithSuccess("AuthUserDelete") =>
          LET u == last'.req.name
          IN  /\ u \notin DOMAIN users'
              /\ u \notin DOMAIN cache'.user_permissions
              /\ \A r \in DOMAIN cache'.role_to_users_map :
                     u \notin Range(cache'.role_to_users_map[r])
              /\ users' = Without(users, u)
              /\ cache'.user_permissions = Without(cache.user_permissions, u)
              /\ DOMAIN cache'.role_to_users_map = DOMAIN cache.role_to_users_map
              /\ \A r \in DOMAIN cache.role_to_users_map :
                     Range(cache'.role_to_users_map[r])
                         = Range(cache.role_to_users_map[r]) \ {u}
              /\ UNCHANGED roles]_vars

\* C23: after a successful RoleRevokePermission(role, key, range_end) sync every
\* persisted user that holds the role has a cache entry equal to the permissions
\* derived from its persisted roles
RevokePermissionRecomputesHolders ==
    (SyncSucceeded /\ last.req.type = "AuthRoleRevokePermission") =>
        \A u \in Holders(last.req.role) :
            /\ u \in DOMAIN cache.user_permissions
            /\ cache.user_permissions[u] = RebuiltPermissions(u)

\* C24: a successful UserChangePassword sync replaces the password hash of the
\* user and nothing else: its name, options and roles, the other user records,
\* the role records, the enabled flag and its persisted byte and the whole
\* permission cache are as they were, and the revision advances by exactly one
ChangePasswordReplacesOnlyHash ==
    [][SyncsWithSuccess("AuthUserChangePassword") =>
          LET u == last'.req.name
          IN  /\ u \in DOMAIN users
              /\ users' = [users EXCEPT ![u].password = last'.req.hashed_password]
              /\ revision' = revision + 1
              /\ UNCHANGED <<roles, enabled, auth_enable, cache>>]_vars

\* the password of a user that holds a role with a permission, and has it in the
\* cache, was changed from "p1" to "p2"
PasswordOfRoleHolderChanged ==
    /\ SyncSucceeded
    /\ last.req.type = "AuthUserChangePassword"
    /\ users[last.req.name].password = "p2"
    /\ users[last.req.name].roles # <<>>
    /\ last.req.name \in DOMAIN cache.user_permissions
    /\ cache.user_permissions[last.req.name].read # <<>>
    /\ last.revision_before + 1 = revision

\* this step puts a value under AUTH_ENABLE_KEY
PutsAuthEnable ==
    \/ auth_enable' # auth_enable
    \/ \E i \in DOMAIN last'.writes : last'.writes[i].key = <<"auth_enable", "">>

\* C25: in every state between syncs the enabled flag is true iff the persisted
\* auth_enable byte is 1, and false iff the byte is 0 or was never written; a
\* step that writes the record is one that takes the flag from false to true or
\* from true to false
EnabledFlagMatchesRecord ==
    /\ [](enabled <=> auth_enable = <<1>>)
    /\ [](~enabled <=> auth_enable \in {<<>>, <<0>>})
    /\ [][PutsAuthEnable => enabled' # enabled]_vars

\* auth was enabled and disabled, and the sync of a further AuthDisable found it
\* disabled and wrote nothing
DisabledTwice ==
    /\ SyncSucceeded
    /\ last.req.type = "AuthDisable"
    /\ last.writes = <<>>
    /\ auth_enable = <<0>>
    /\ ~enabled

\* the (main, sub) pair of a stamp, and the lexicographic order of pairs
RevisionPair(stamp) == <<stamp.revision, stamp.sub_revision>>

LexLess(p, q) == p[1] < q[1] \/ (p[1] = q[1] /\ p[2] < q[2])

\* C26: no two writes or tombstones carry the same (main, sub) pair and the
\* pairs increase lexicographically in the order written: the counter never
\* decreases, an execute writes nothing and leaves the counter alone, a sync
\* that writes advances the counter by exactly one, every stamp of a sync has
\* the main revision that sync allocated (greater than the counter before it,
\* and so than every main stamped before), and the stamps of one sync increase
\* in the order written
StampsNeverReused ==
    /\ [](\A i \in DOMAIN last.writes : last.writes[i].revision <= revision)
    /\ [][/\ revision' \in {revision, revision + 1}
          /\ last'.op = "execute" => (last'.writes = <<>> /\ revision' = revision)
          /\ last'.writes # <<>> => revision' = revision + 1
          /\ \A i \in DOMAIN last'.writes : last'.writes[i].revision = revision'
          /\ \A i, j \in DOMAIN last'.writes :
                 i < j => LexLess(RevisionPair(last'.writes[i]),
                                  RevisionPair(last'.writes[j]))]_vars

\* a sync wrote a tombstone and two user records, after five syncs that wrote
TombstoneAndTwoRewritesStamped ==
    /\ last.op = "sync"
    /\ Len(last.writes) = 3
    /\ last.writes[1].tombstone
    /\ last.revision_before = 5
    /\ revision = 6

\* C27: a RoleDelete sync over k users holding the role allocates one main
\* revision, stamps the tombstone of the role at sub-revision 0 and the rewrites
\* of the k holders at sub-revisions 1..k of the same main revision, and leaves
\* the records of the users that do not hold the role as they were
RoleDeleteStampsCascade ==
    [][RoleDeleteSyncs =>
          LET r == last'.req.role
              k == Cardinality(Holders(r))
              w == last'.writes
          IN  /\ revision' = revision + 1
              /\ Len(w) = k + 1
              /\ w[1] = Stamp("role/", r, revision', 0, TRUE)
              /\ \A i \in 1..k :
                     /\ w[i + 1].key[1] = "user/"
                     /\ w[i + 1].revision = revision'
                     /\ w[i + 1].sub_revision = i
                     /\ ~w[i + 1].tombstone
              /\ {w[i + 1].key[2] : i \in 1..k} = Holders(r)
              /\ \A u \in (DOMAIN users) \ Holders(r) :
                     u \in DOMAIN users' /\ users'[u] = users[u]]_vars

\* every role a persisted user holds is root or a persisted role
HeldRolesPersisted ==
    \A u \in DOMAIN users :
        \A r \in Range(users[u].roles) : r = ROOT_ROLE \/ r \in DOMAIN roles

\* this step syncs a UserGrantRole that passed execute and whose role, not root,
\* is not persisted
GrantOfMissingRoleSyncs ==
    /\ last'.op = "sync"
    /\ ~last'.met_err
    /\ last'.req.type = "AuthUserGrantRole"
    /\ last'.req.role # ROOT_ROLE
    /\ last'.req.role \notin DOMAIN roles

\* C28: with execute of one proposal between execute and sync of another, and
\* syncs applied one at a time, every role a persisted user holds is root or a
\* persisted role; the sync of a UserGrantRole whose role was deleted after its
\* execute returns the error and leaves the users as they were
NoUserHoldsMissingRole ==
    /\ []HeldRolesPersisted
    /\ [][GrantOfMissingRoleSyncs => (~last'.ok /\ UNCHANGED users)]_vars

\* the role dev was added, granted in execute to the persisted user, and deleted
\* before the sync of the grant, which returned the error: the user holds no role
DeletedRoleNotGranted ==
    /\ SyncRejected
    /\ last.req.type = "AuthUserGrantRole"
    /\ last.req.role = "dev"
    /\ "dev" \notin DOMAIN roles
    /\ last.req.user \in DOMAIN users
    /\ users[last.req.user].roles = <<>>
    /\ revision = 3
    /\ sp_exec_pool = EmptyMap

\* C29: with execute of one proposal between execute and sync of another,
\* whenever the enabled flag is true the user root is persisted and holds the
\* role root
EnabledKeepsRoot == enabled => RootHoldsRootRole

\* some persisted role that the persisted user u holds grants the range with one
\* of the types
GrantedByHeldRole(u, key_range, types) ==
    /\ u \in DOMAIN users
    /\ \E r \in Range(users[u].roles) \cap DOMAIN roles :
           \E perm \in Range(roles[r].key_permission) :
               /\ KeyRange(perm.key, perm.range_end) = key_range
               /\ perm.perm_type \in types

\* C30: in every reachable state every range of a user's cached read list is
\* granted with type Read or Readwrite by a persisted role the user holds, and
\* every range of its cached write list with type Write or Readwrite
NoStalePrivilege ==
    \A u \in DOMAIN cache.user_permissions :
        /\ \A key_range \in Range(cache.user_permissions[u].read) :
               GrantedByHeldRole(u, key_range, {"Read", "Readwrite"})
        /\ \A key_range \in Range(cache.user_permissions[u].write) :
               GrantedByHeldRole(u, key_range, {"Write", "Readwrite"})

\* this step syncs a proposal of this type that passed execute
SyncsExecuted(type) == last'.op = "sync" /\ ~last'.met_err /\ last'.req.type = type

\* a UserAdd sync leaves the roles and password of a user that is already
\* persisted as they were
UserAddKeepsPersistedUser ==
    (SyncsExecuted("AuthUserAdd") /\ last'.req.name \in DOMAIN users) =>
        /\ last'.req.name \in DOMAIN users'
        /\ users'[last'.req.name].roles = users[last'.req.name].roles
        /\ users'[last'.req.name].password = users[last'.req.name].password

\* a RoleAdd sync leaves the permissions of a role that is already persisted as
\* they were
RoleAddKeepsPersistedRole ==
    (SyncsExecuted("AuthRoleAdd") /\ last'.req.name \in DOMAIN roles) =>
        /\ last'.req.name \in DOMAIN roles'
        /\ roles'[last'.req.name].key_permission = roles[last'.req.name].key_permission

\* C31: with execute of one proposal between execute and sync of another, the
\* sync of a UserAdd does not change the roles or password of a user record that
\* is persisted when it runs, and the sync of a RoleAdd does not change the
\* permissions of a role record that is persisted when it runs
AddNeverOverwrites ==
    [][UserAddKeepsPersistedUser /\ RoleAddKeepsPersistedRole]_vars

\* C32: in every reachable state every name listed in role_to_users[r] is a
\* persisted user whose roles contain r, and no name is listed more than once
\* under the same role
ReverseIndexSound ==
    \A r \in DOMAIN cache.role_to_users_map :
        \A u \in Range(cache.role_to_users_map[r]) :
            /\ u \in DOMAIN users
            /\ r \in Range(users[u].roles)
            /\ Count(cache.role_to_users_map[r], u) = 1

====
